---- MODULE Spec2Model ----
(***************************************************************************)
(* Model of the deterministic economy simulator of src/simulator.py.       *)
(*                                                                         *)
(* The GameState dataclass is the record `state`; GameConstants is the     *)
(* record `constants`.  apply_action, progress_builds and gather_resources *)
(* are operators on a state record; simulate is a process whose position   *)
(* in the tick loop is `pc`.  Optional values (float | None, str | None)   *)
(* are sequences: <<>> is None and <<v>> is the value v.  All numbers of   *)
(* the modelled configurations are whole, so float arithmetic is exact and *)
(* is modelled by integer arithmetic; fitness weights and penalties are    *)
(* held in hundredths.                                                     *)
(***************************************************************************)
EXTENDS Integers, Sequences, FiniteSets, TLC

VARIABLES
    constants,      \* GameConstants loaded by load_constants
    state,          \* the GameState instance
    trace,          \* simulate: list of trace records
    pc,             \* simulate: position in the function body
    chromosome,     \* genes the loop has drawn from the iterable so far
    gene_action,    \* simulate local / apply_action argument `action`
    target,         \* simulate local / apply_action argument `target`
    income,         \* simulate local: result of gather_resources
    success,        \* first component of apply_action's result
    reason,         \* second component of apply_action's result
    result,         \* value returned by simulate: <<>> or <<fitness, trace>>
    error,          \* exception raised by simulate: <<>> or <<exception>>
    last_call,      \* direct-call harness: name of the function last called
    ncalls          \* direct-call harness: number of calls made

vars == << constants, state, trace, pc, chromosome, gene_action, target,
           income, success, reason, result, error, last_call, ncalls >>

\* ---------------------------------------------------------------- bounds
MaxTicks == 4
MaxGene == 7
MaxCalls == 4

\* -------------------------------------------------------------- helpers
None == << >>
Some(v) == << v >>
EmptyMap == [k \in {} |-> 0]

\* dict.get(key, default)
Get(map, key, default) == IF key \in DOMAIN map THEN map[key] ELSE default

Max(a, b) == IF a >= b THEN a ELSE b

\* ------------------------------------------------------- configurations
TrainTimes == {5, 10, 20}
BuildTimes == {10, 20}

InitTrain == [villagers |-> 1, idle_villagers |-> 1, food |-> 50, wood |-> 0,
              population_cap |-> 4]
InitHouse == [villagers |-> 4, idle_villagers |-> 1, food_workers |-> 3,
              wood_workers |-> 0, food |-> 0, wood |-> 30,
              population_cap |-> 4]
InitRich == [villagers |-> 2, food |-> 100, wood |-> 30]
InitOdd == [villagers |-> 3, idle_villagers |-> 1, food |-> 50,
            population_cap |-> 2]

\* five villagers, no population_cap, food or idle_villagers entry
InitCrowd == [villagers |-> 5, food_workers |-> 1, wood_workers |-> 2,
              wood |-> 20]
\* three noop ticks from here end in villagers=5, food=120, wood=40
InitScore == [villagers |-> 5, idle_villagers |-> 0, food_workers |-> 4,
              wood_workers |-> 1, food |-> 0, wood |-> 10,
              population_cap |-> 6]

InitialStates == {InitTrain, InitHouse, InitRich, InitOdd}

Config(tt, bt, init) ==
    [ tick_seconds    |-> 10,
      gather_rates    |-> [food |-> 1, wood |-> 1],
      actions         |-> [ train_villager |-> [food_cost |-> 50,
                                                train_time |-> tt],
                            build_house    |-> [wood_cost |-> 30,
                                                build_time |-> bt,
                                                pop_increase |-> 4] ],
      initial_state   |-> init,
      penalties       |-> [tc_idle_per_sec |-> 10, pop_block_per_sec |-> 50],
      fitness_weights |-> [villagers |-> 100, food |-> 1, wood |-> 1] ]

\* constants with entries left out: no wood rate, no train_villager entry,
\* no build_time or pop_increase, no wood weight, no pop_block penalty
SparseConfig(init) ==
    [ tick_seconds    |-> 10,
      gather_rates    |-> [food |-> 1],
      actions         |-> [ build_house |-> [wood_cost |-> 30] ],
      initial_state   |-> init,
      penalties       |-> [tc_idle_per_sec |-> 10],
      fitness_weights |-> [villagers |-> 100, food |-> 1] ]

Configs ==
    { Config(tt, bt, init) :
        tt \in TrainTimes, bt \in BuildTimes, init \in InitialStates }
    \cup { Config(10, 10, InitScore),
           SparseConfig(InitCrowd), SparseConfig(InitRich) }

\* ---------------------------------------------------------- GameState
\* faulty variant: the default population cap is 4 whatever the villagers
FromConstants_DefaultCapFour(c) ==
    LET initial   == c.initial_state
        villagers == Get(initial, "villagers", 0)
        idle      == Get(initial, "idle_villagers", villagers)
        food      == Get(initial, "food", 0)
        wood      == Get(initial, "wood", 0)
        pop_cap   == Get(initial, "population_cap", 4)
    IN  [ time           |-> 0,
          villagers      |-> villagers,
          idle_villagers |-> idle,
          food_workers   |-> Get(initial, "food_workers", 0),
          wood_workers   |-> Get(initial, "wood_workers", 0),
          population_cap |-> pop_cap,
          food           |-> food,
          wood           |-> wood,
          train_progress |-> None,
          house_progress |-> None,
          tc_idle_time   |-> 0,
          pop_block_time |-> 0,
          events         |-> << >> ]

FromConstants(c) ==
    LET initial   == c.initial_state
        villagers == Get(initial, "villagers", 0)
        idle      == Get(initial, "idle_villagers", villagers)
        food      == Get(initial, "food", 0)
        wood      == Get(initial, "wood", 0)
        pop_cap   == Get(initial, "population_cap", Max(villagers, 4))
    IN  [ time           |-> 0,
          villagers      |-> villagers,
          idle_villagers |-> idle,
          food_workers   |-> Get(initial, "food_workers", 0),
          wood_workers   |-> Get(initial, "wood_workers", 0),
          population_cap |-> pop_cap,
          food           |-> food,
          wood           |-> wood,
          train_progress |-> None,
          house_progress |-> None,
          tc_idle_time   |-> 0,
          pop_block_time |-> 0,
          events         |-> << >> ]

\* notices appended to state.events; "house(+N) queued" carries N
VillagerTrained == << "villager trained" >>
HouseCompleted == << "house completed" >>
HouseQueued(n) == << "house(+N) queued", n >>

\* -------------------------------------------------------- apply_action
Ret(s, ok, why) == [state |-> s, success |-> ok, reason |-> why]

\* faulty variant: the cap test lets a villager be trained at the cap
TrainVillager_CapOffByOne(s, c) ==
    LET data       == Get(c.actions, "train_villager", EmptyMap)
        food_cost  == Get(data, "food_cost", 0)
        train_time == Get(data, "train_time", 0)
    IN  IF s.train_progress # None THEN Ret(s, FALSE, "town center busy")
        ELSE IF s.food < food_cost THEN Ret(s, FALSE, "not enough food")
        ELSE IF s.villagers > s.population_cap
             THEN Ret(s, FALSE, "population capped")
        ELSE Ret([s EXCEPT !.food = @ - food_cost,
                           !.train_progress = Some(train_time)],
                 TRUE, "queued villager")

\* faulty variant: the food is paid before the population cap is checked
TrainVillager_PaysBeforeCapCheck(s, c) ==
    LET data       == Get(c.actions, "train_villager", EmptyMap)
        food_cost  == Get(data, "food_cost", 0)
        train_time == Get(data, "train_time", 0)
        paid       == [s EXCEPT !.food = @ - food_cost]
    IN  IF s.train_progress # None THEN Ret(s, FALSE, "town center busy")
        ELSE IF s.food < food_cost THEN Ret(s, FALSE, "not enough food")
        ELSE IF s.villagers >= s.population_cap
             THEN Ret(paid, FALSE, "population capped")
        ELSE Ret([paid EXCEPT !.train_progress = Some(train_time)],
                 TRUE, "queued villager")

\* faulty variant: a new order replaces the one in flight
TrainVillager_Requeues(s, c) ==
    LET data       == Get(c.actions, "train_villager", EmptyMap)
        food_cost  == Get(data, "food_cost", 0)
        train_time == Get(data, "train_time", 0)
    IN  IF s.food < food_cost THEN Ret(s, FALSE, "not enough food")
        ELSE IF s.villagers >= s.population_cap
             THEN Ret(s, FALSE, "population capped")
        ELSE Ret([s EXCEPT !.food = @ - food_cost,
                           !.train_progress = Some(train_time)],
                 TRUE, "queued villager")

\* faulty variant: the villager being trained is taken from the idle pool
TrainVillager_TakesIdle(s, c) ==
    LET data       == Get(c.actions, "train_villager", EmptyMap)
        food_cost  == Get(data, "food_cost", 0)
        train_time == Get(data, "train_time", 0)
    IN  IF s.train_progress # None THEN Ret(s, FALSE, "town center busy")
        ELSE IF s.food < food_cost THEN Ret(s, FALSE, "not enough food")
        ELSE IF s.villagers >= s.population_cap
             THEN Ret(s, FALSE, "population capped")
        ELSE Ret([s EXCEPT !.food = @ - food_cost,
                           !.idle_villagers = @ - 1,
                           !.train_progress = Some(train_time)],
                 TRUE, "queued villager")

TrainVillager(s, c) ==
    LET data       == Get(c.actions, "train_villager", EmptyMap)
        food_cost  == Get(data, "food_cost", 0)
        train_time == Get(data, "train_time", 0)
    IN  IF s.train_progress # None THEN Ret(s, FALSE, "town center busy")
        ELSE IF s.food < food_cost THEN Ret(s, FALSE, "not enough food")
        ELSE IF s.villagers >= s.population_cap
             THEN Ret(s, FALSE, "population capped")
        ELSE Ret([s EXCEPT !.food = @ - food_cost,
                           !.train_progress = Some(train_time)],
                 TRUE, "queued villager")

\* faulty variant: the last idle villager cannot be assigned
AssignFood_NeedsTwoIdle(s) ==
    IF s.idle_villagers <= 1 THEN Ret(s, FALSE, "no idle villager")
    ELSE Ret([s EXCEPT !.idle_villagers = @ - 1, !.food_workers = @ + 1],
             TRUE, "assigned to food")

\* faulty variant: the assigned villager is not taken out of the idle pool
AssignFood_KeepsIdle(s) ==
    IF s.idle_villagers <= 0 THEN Ret(s, FALSE, "no idle villager")
    ELSE Ret([s EXCEPT !.food_workers = @ + 1], TRUE, "assigned to food")

AssignFood(s) ==
    IF s.idle_villagers <= 0 THEN Ret(s, FALSE, "no idle villager")
    ELSE Ret([s EXCEPT !.idle_villagers = @ - 1, !.food_workers = @ + 1],
             TRUE, "assigned to food")

AssignWood(s) ==
    IF s.idle_villagers <= 0 THEN Ret(s, FALSE, "no idle villager")
    ELSE Ret([s EXCEPT !.idle_villagers = @ - 1, !.wood_workers = @ + 1],
             TRUE, "assigned to wood")

\* faulty variant: with the food pool empty a wood worker is taken instead
IdleOne_FallsBackToWood(s, tgt) ==
    LET pool == IF tgt = None \/ tgt = Some("") THEN "food" ELSE tgt[1]
    IN  IF (pool = "wood" \/ s.food_workers <= 0) /\ s.wood_workers > 0
        THEN Ret([s EXCEPT !.wood_workers = @ - 1, !.idle_villagers = @ + 1],
                 TRUE, "wood worker idled")
        ELSE IF s.food_workers > 0
        THEN Ret([s EXCEPT !.food_workers = @ - 1, !.idle_villagers = @ + 1],
                 TRUE, "food worker idled")
        ELSE Ret(s, FALSE, "no worker on target resource")

IdleOne(s, tgt) ==
    LET pool == IF tgt = None \/ tgt = Some("") THEN "food" ELSE tgt[1]
    IN  IF pool = "wood" /\ s.wood_workers > 0
        THEN Ret([s EXCEPT !.wood_workers = @ - 1, !.idle_villagers = @ + 1],
                 TRUE, "wood worker idled")
        ELSE IF s.food_workers > 0
        THEN Ret([s EXCEPT !.food_workers = @ - 1, !.idle_villagers = @ + 1],
                 TRUE, "food worker idled")
        ELSE Ret(s, FALSE, "no worker on target resource")

\* faulty variant: the wood is spent without being checked
BuildHouse_NoWoodCheck(s, c) ==
    LET data         == Get(c.actions, "build_house", EmptyMap)
        wood_cost    == Get(data, "wood_cost", 0)
        build_time   == Get(data, "build_time", 0)
        pop_increase == Get(data, "pop_increase", 0)
    IN  IF s.house_progress # None
        THEN Ret(s, FALSE, "another house in progress")
        ELSE IF s.idle_villagers <= 0 THEN Ret(s, FALSE, "no idle villager")
        ELSE Ret([s EXCEPT !.wood = @ - wood_cost,
                           !.idle_villagers = @ - 1,
                           !.house_progress = Some(build_time),
                           !.events = Append(@, HouseQueued(pop_increase))],
                 TRUE, "house queued")

\* faulty variant: the builder stays in the idle pool
BuildHouse_BuilderStaysIdle(s, c) ==
    LET data         == Get(c.actions, "build_house", EmptyMap)
        wood_cost    == Get(data, "wood_cost", 0)
        build_time   == Get(data, "build_time", 0)
        pop_increase == Get(data, "pop_increase", 0)
    IN  IF s.house_progress # None
        THEN Ret(s, FALSE, "another house in progress")
        ELSE IF s.idle_villagers <= 0 THEN Ret(s, FALSE, "no idle villager")
        ELSE IF s.wood < wood_cost THEN Ret(s, FALSE, "not enough wood")
        ELSE Ret([s EXCEPT !.wood = @ - wood_cost,
                           !.house_progress = Some(build_time),
                           !.events = Append(@, HouseQueued(pop_increase))],
                 TRUE, "house queued")

BuildHouse(s, c) ==
    LET data         == Get(c.actions, "build_house", EmptyMap)
        wood_cost    == Get(data, "wood_cost", 0)
        build_time   == Get(data, "build_time", 0)
        pop_increase == Get(data, "pop_increase", 0)
    IN  IF s.house_progress # None
        THEN Ret(s, FALSE, "another house in progress")
        ELSE IF s.idle_villagers <= 0 THEN Ret(s, FALSE, "no idle villager")
        ELSE IF s.wood < wood_cost THEN Ret(s, FALSE, "not enough wood")
        ELSE Ret([s EXCEPT !.wood = @ - wood_cost,
                           !.idle_villagers = @ - 1,
                           !.house_progress = Some(build_time),
                           !.events = Append(@, HouseQueued(pop_increase))],
                 TRUE, "house queued")

\* faulty variant: state.events is not cleared at entry
ApplyAction_KeepsEvents(s, action, tgt, c) ==
    CASE action = "noop"           -> Ret(s, TRUE, "")
      [] action = "train_villager" -> TrainVillager(s, c)
      [] action = "assign_food"    -> AssignFood(s)
      [] action = "assign_wood"    -> AssignWood(s)
      [] action = "idle_one"       -> IdleOne(s, tgt)
      [] action = "build_house"    -> BuildHouse(s, c)
      [] OTHER                     -> Ret(s, FALSE, "unknown action")

ApplyAction(s, action, tgt, c) ==
    LET s0 == [s EXCEPT !.events = << >>]
    IN  CASE action = "noop"           -> Ret(s0, TRUE, "")
          [] action = "train_villager" -> TrainVillager(s0, c)
          [] action = "assign_food"    -> AssignFood(s0)
          [] action = "assign_wood"    -> AssignWood(s0)
          [] action = "idle_one"       -> IdleOne(s0, tgt)
          [] action = "build_house"    -> BuildHouse(s0, c)
          [] OTHER                     -> Ret(s0, FALSE, "unknown action")

\* ----------------------------------------------------- progress_builds
\* faulty variant: a timer that reaches exactly zero is not complete yet
ProgressTraining_StrictlyBelowZero(s, c) ==
    LET dt == c.tick_seconds
    IN  IF s.train_progress # None
        THEN LET left == s.train_progress[1] - dt
             IN  IF left < 0
                 THEN [s EXCEPT !.train_progress = None,
                                !.villagers = @ + 1,
                                !.idle_villagers = @ + 1,
                                !.events = Append(@, VillagerTrained)]
                 ELSE [s EXCEPT !.train_progress = Some(left)]
        ELSE [s EXCEPT !.tc_idle_time = @ + dt]

\* faulty variant: the tick in which a training completes counts as idle
ProgressTraining_IdleOnCompletion(s, c) ==
    LET dt == c.tick_seconds
    IN  IF s.train_progress # None
        THEN LET left == s.train_progress[1] - dt
             IN  IF left <= 0
                 THEN [s EXCEPT !.train_progress = None,
                                !.villagers = @ + 1,
                                !.idle_villagers = @ + 1,
                                !.tc_idle_time = @ + dt,
                                !.events = Append(@, VillagerTrained)]
                 ELSE [s EXCEPT !.train_progress = Some(left)]
        ELSE [s EXCEPT !.tc_idle_time = @ + dt]

ProgressTraining(s, c) ==
    LET dt == c.tick_seconds
    IN  IF s.train_progress # None
        THEN LET left == s.train_progress[1] - dt
             IN  IF left <= 0
                 THEN [s EXCEPT !.train_progress = None,
                                !.villagers = @ + 1,
                                !.idle_villagers = @ + 1,
                                !.events = Append(@, VillagerTrained)]
                 ELSE [s EXCEPT !.train_progress = Some(left)]
        ELSE [s EXCEPT !.tc_idle_time = @ + dt]

\* faulty variant: the builder is not returned to the idle pool
ProgressHouse_BuilderNotReturned(s, c) ==
    LET dt == c.tick_seconds
    IN  IF s.house_progress # None
        THEN LET left == s.house_progress[1] - dt
             IN  IF left <= 0
                 THEN LET pop_increase ==
                            Get(Get(c.actions, "build_house", EmptyMap),
                                "pop_increase", 0)
                      IN  [s EXCEPT !.house_progress = None,
                                    !.population_cap = @ + pop_increase,
                                    !.events = Append(@, HouseCompleted)]
                 ELSE [s EXCEPT !.house_progress = Some(left)]
        ELSE s

ProgressHouse(s, c) ==
    LET dt == c.tick_seconds
    IN  IF s.house_progress # None
        THEN LET left == s.house_progress[1] - dt
             IN  IF left <= 0
                 THEN LET pop_increase ==
                            Get(Get(c.actions, "build_house", EmptyMap),
                                "pop_increase", 0)
                      IN  [s EXCEPT !.house_progress = None,
                                    !.population_cap = @ + pop_increase,
                                    !.idle_villagers = @ + 1,
                                    !.events = Append(@, HouseCompleted)]
                 ELSE [s EXCEPT !.house_progress = Some(left)]
        ELSE s

ProgressPopBlock(s, c) ==
    IF s.villagers >= s.population_cap
    THEN [s EXCEPT !.pop_block_time = @ + c.tick_seconds]
    ELSE s

\* faulty variant: the blocked test runs before the completions
ProgressBuilds_BlockedBeforeCompletions(s, c) ==
    ProgressHouse(ProgressTraining(ProgressPopBlock(s, c), c), c)

ProgressBuilds(s, c) ==
    ProgressPopBlock(ProgressHouse(ProgressTraining(s, c), c), c)

\* ---------------------------------------------------- gather_resources
\* faulty variant: a missing rate counts as 1
GatherIncome_MissingRateIsOne(s, c) ==
    LET dt == c.tick_seconds
    IN  [ food |-> s.food_workers * Get(c.gather_rates, "food", 1) * dt,
          wood |-> s.wood_workers * Get(c.gather_rates, "wood", 1) * dt ]

GatherIncome(s, c) ==
    LET dt == c.tick_seconds
    IN  [ food |-> s.food_workers * Get(c.gather_rates, "food", 0) * dt,
          wood |-> s.wood_workers * Get(c.gather_rates, "wood", 0) * dt ]

GatherResources(s, c) ==
    LET inc == GatherIncome(s, c)
    IN  [s EXCEPT !.food = @ + inc.food, !.wood = @ + inc.wood]

\* ------------------------------------------------------- ACTION_LOOKUP
ACTION_LOOKUP ==
    [ g \in 0..6 |->
        CASE g = 0 -> << "noop", None >>
          [] g = 1 -> << "train_villager", None >>
          [] g = 2 -> << "assign_food", None >>
          [] g = 3 -> << "assign_wood", None >>
          [] g = 4 -> << "idle_one", Some("food") >>
          [] g = 5 -> << "idle_one", Some("wood") >>
          [] g = 6 -> << "build_house", None >> ]

\* genes an iterable may yield: the table's and some outside it
Genes == (0 - 1)..MaxGene

\* enumerate(chromosome): index and value of the gene the loop holds
tick == Len(chromosome) - 1
gene == chromosome[Len(chromosome)]

\* ------------------------------------------------------------ simulate
\* faulty variant: the record is built as if state.time had already been advanced
TraceRecord_TimeAfterTick(s, c, idx, action, ok, why, inc) ==
    [ tick           |-> idx,
      time           |-> s.time + c.tick_seconds,
      action         |-> action,
      success        |-> ok,
      reason         |-> why,
      food           |-> s.food,
      wood           |-> s.wood,
      villagers      |-> s.villagers,
      idle           |-> s.idle_villagers,
      food_workers   |-> s.food_workers,
      wood_workers   |-> s.wood_workers,
      population_cap |-> s.population_cap,
      income         |-> inc,
      events         |-> s.events ]

TraceRecord(s, c, idx, action, ok, why, inc) ==
    [ tick           |-> idx,
      time           |-> s.time,
      action         |-> action,
      success        |-> ok,
      reason         |-> why,
      food           |-> s.food,
      wood           |-> s.wood,
      villagers      |-> s.villagers,
      idle           |-> s.idle_villagers,
      food_workers   |-> s.food_workers,
      wood_workers   |-> s.wood_workers,
      population_cap |-> s.population_cap,
      income         |-> inc,
      events         |-> s.events ]

\* faulty variant: the penalties are added instead of subtracted
Fitness_PenaltiesAdded(s, c) ==
    LET weights   == c.fitness_weights
        penalties == c.penalties
    IN  Get(weights, "villagers", 0) * s.villagers
        + Get(weights, "food", 0) * s.food
        + Get(weights, "wood", 0) * s.wood
        + Get(penalties, "tc_idle_per_sec", 0) * s.tc_idle_time
        + Get(penalties, "pop_block_per_sec", 0) * s.pop_block_time

\* fitness in hundredths (weights and penalties are held in hundredths)
Fitness(s, c) ==
    LET weights   == c.fitness_weights
        penalties == c.penalties
    IN  Get(weights, "villagers", 0) * s.villagers
        + Get(weights, "food", 0) * s.food
        + Get(weights, "wood", 0) * s.wood
        - Get(penalties, "tc_idle_per_sec", 0) * s.tc_idle_time
        - Get(penalties, "pop_block_per_sec", 0) * s.pop_block_time

SummaryRecord(s, tr) ==
    [ tick    |-> Len(tr),
      time    |-> s.time,
      summary |-> [ villagers      |-> s.villagers,
                    food           |-> s.food,
                    wood           |-> s.wood,
                    population_cap |-> s.population_cap,
                    tc_idle_time   |-> s.tc_idle_time,
                    pop_block_time |-> s.pop_block_time ] ]

UnknownGeneError(g) ==
    [ type    |-> "ValueError",
      message |-> "unknown action index '{gene}'",
      fields  |-> [gene |-> g] ]

Locals0 ==
    /\ gene_action = ""
    /\ target = None
    /\ income = [food |-> 0, wood |-> 0]
    /\ success = FALSE
    /\ reason = ""
    /\ result = None
    /\ error = None
    /\ last_call = ""
    /\ ncalls = 0

Init ==
    /\ constants \in Configs
    /\ state = FromConstants(constants)
    /\ trace = << >>
    /\ chromosome = << >>
    /\ pc = "loop"
    /\ Locals0

\* faulty variant: a gene outside the table is run as a noop instead of raising
LoopNext_UnknownAsNoop ==
    /\ pc = "loop"
    /\ Len(chromosome) < MaxTicks
    /\ \E g \in Genes :
         /\ chromosome' = Append(chromosome, g)
         /\ gene_action' = IF g \in DOMAIN ACTION_LOOKUP
                           THEN ACTION_LOOKUP[g][1] ELSE "noop"
         /\ target' = IF g \in DOMAIN ACTION_LOOKUP
                      THEN ACTION_LOOKUP[g][2] ELSE None
         /\ pc' = "gather"
         /\ error' = error
    /\ UNCHANGED << constants, state, trace, income, success, reason, result,
                    last_call, ncalls >>

\* for tick, gene in enumerate(chromosome): the iterable yields a gene,
\* which is decoded through ACTION_LOOKUP or raises
LoopNext ==
    /\ pc = "loop"
    /\ Len(chromosome) < MaxTicks
    /\ \E g \in Genes :
         /\ chromosome' = Append(chromosome, g)
         /\ IF g \in DOMAIN ACTION_LOOKUP
            THEN /\ gene_action' = ACTION_LOOKUP[g][1]
                 /\ target' = ACTION_LOOKUP[g][2]
                 /\ pc' = "gather"
                 /\ error' = error
            ELSE /\ error' = Some(UnknownGeneError(g))
                 /\ pc' = "raised"
                 /\ UNCHANGED << gene_action, target >>
    /\ UNCHANGED << constants, state, trace, income, success, reason, result,
                    last_call, ncalls >>

\* the iterable is exhausted: leave the loop
LoopEnd ==
    /\ pc = "loop"
    /\ pc' = "score"
    /\ UNCHANGED << constants, state, trace, chromosome, gene_action, target,
                    income, success, reason, result, error, last_call, ncalls >>

Gather ==
    /\ pc = "gather"
    /\ income' = GatherIncome(state, constants)
    /\ state' = GatherResources(state, constants)
    /\ pc' = "progress"
    /\ UNCHANGED << constants, trace, chromosome, gene_action, target,
                    success, reason, result, error, last_call, ncalls >>

Progress ==
    /\ pc = "progress"
    /\ state' = ProgressBuilds(state, constants)
    /\ pc' = "apply"
    /\ UNCHANGED << constants, trace, chromosome, gene_action, target, income,
                    success, reason, result, error, last_call, ncalls >>

Apply ==
    /\ pc = "apply"
    /\ LET r == ApplyAction(state, gene_action, target, constants)
       IN  /\ state' = r.state
           /\ success' = r.success
           /\ reason' = r.reason
    /\ pc' = "record"
    /\ UNCHANGED << constants, trace, chromosome, gene_action, target, income,
                    result, error, last_call, ncalls >>

Record ==
    /\ pc = "record"
    /\ trace' = Append(trace, TraceRecord(state, constants, tick, gene_action,
                                          success, reason, income))
    /\ pc' = "time"
    /\ UNCHANGED << constants, state, chromosome, gene_action, target, income,
                    success, reason, result, error, last_call, ncalls >>

\* faulty variant: the clock is advanced only after a successful action
AdvanceTime_OnlyOnSuccess ==
    /\ pc = "time"
    /\ state' = IF success
                THEN [state EXCEPT !.time = @ + constants.tick_seconds]
                ELSE state
    /\ pc' = "loop"
    /\ UNCHANGED << constants, trace, chromosome, gene_action, target, income,
                    success, reason, result, error, last_call, ncalls >>

AdvanceTime ==
    /\ pc = "time"
    /\ state' = [state EXCEPT !.time = @ + constants.tick_seconds]
    /\ pc' = "loop"
    /\ UNCHANGED << constants, trace, chromosome, gene_action, target, income,
                    success, reason, result, error, last_call, ncalls >>

Score ==
    /\ pc = "score"
    /\ LET full == Append(trace, SummaryRecord(state, trace))
       IN  /\ trace' = full
           /\ result' = Some(<< Fitness(state, constants), full >>)
    /\ pc' = "returned"
    /\ UNCHANGED << constants, state, chromosome, gene_action, target, income,
                    success, reason, error, last_call, ncalls >>

Next ==
    \/ LoopNext
    \/ LoopEnd
    \/ Gather
    \/ Progress
    \/ Apply
    \/ Record
    \/ AdvanceTime
    \/ Score

Spec == Init /\ [][Next]_vars

\* ------------------------------------------------- direct-call harness
\* The three engine functions are public: a caller (a unit test) may call
\* them in any order on a state built from the constants, and may hand
\* apply_action any action name and any target.
ActionNames == { "noop", "train_villager", "assign_food", "assign_wood",
                 "idle_one", "build_house", "gather_gold" }
Targets == { None, Some(""), Some("food"), Some("wood"), Some("gold") }

InitCalls ==
    /\ constants \in Configs
    /\ state = FromConstants(constants)
    /\ trace = << >>
    /\ chromosome = << >>
    /\ pc = "calls"
    /\ Locals0

CallGather ==
    /\ pc = "calls"
    /\ ncalls < MaxCalls
    /\ income' = GatherIncome(state, constants)
    /\ state' = GatherResources(state, constants)
    /\ last_call' = "gather_resources"
    /\ ncalls' = ncalls + 1
    /\ UNCHANGED << constants, trace, pc, chromosome, gene_action, target,
                    success, reason, result, error >>

CallProgress ==
    /\ pc = "calls"
    /\ ncalls < MaxCalls
    /\ state' = ProgressBuilds(state, constants)
    /\ last_call' = "progress_builds"
    /\ ncalls' = ncalls + 1
    /\ UNCHANGED << constants, trace, pc, chromosome, gene_action, target,
                    income, success, reason, result, error >>

CallApply ==
    /\ pc = "calls"
    /\ ncalls < MaxCalls
    /\ \E a \in ActionNames, t \in Targets :
         LET r == ApplyAction(state, a, t, constants)
         IN  /\ gene_action' = a
             /\ target' = t
             /\ state' = r.state
             /\ success' = r.success
             /\ reason' = r.reason
    /\ last_call' = "apply_action"
    /\ ncalls' = ncalls + 1
    /\ UNCHANGED << constants, trace, pc, chromosome, income, result, error >>

NextCalls ==
    \/ CallGather
    \/ CallProgress
    \/ CallApply

SpecCalls == InitCalls /\ [][NextCalls]_vars

\* ================================================================ claims
Range(seq) == { seq[i] : i \in DOMAIN seq }

Conserved(s) ==
    s.villagers = s.idle_villagers + s.food_workers + s.wood_workers

\* the run started from a state whose head counts add up
InitConserves == Conserved(FromConstants(constants))

\* every field of a state except events
SansEvents(s) == [s EXCEPT !.events = << >>]

dt == constants.tick_seconds
food_cost == Get(Get(constants.actions, "train_villager", EmptyMap), "food_cost", 0)
train_time == Get(Get(constants.actions, "train_villager", EmptyMap), "train_time", 0)
wood_cost == Get(Get(constants.actions, "build_house", EmptyMap), "wood_cost", 0)
build_time == Get(Get(constants.actions, "build_house", EmptyMap), "build_time", 0)
pop_increase == Get(Get(constants.actions, "build_house", EmptyMap), "pop_increase", 0)

\* ---------------------------------------------------------------- C1
\* C1 as stated: from a conserving initial state, villagers equals
\* idle_villagers + food_workers + wood_workers at every point of every
\* tick, also while a house queued by build_house is still in flight.
C1_Original == InitConserves => Conserved(state)

\* C1 amended: from a conserving initial state, villagers equals
\* idle_villagers + food_workers + wood_workers at every point of every
\* tick at which no house is in flight.
C1_ConservedWhenNoHouse ==
    (InitConserves /\ state.house_progress = None) => Conserved(state)

\* a house was queued, has completed in this tick's progress_builds and the
\* head counts add up again
C1_Witness ==
    /\ InitConserves
    /\ pc = "apply"
    /\ HouseCompleted \in Range(state.events)
    /\ state.house_progress = None
    /\ state.food_workers > 0
    /\ Conserved(state)

\* ---------------------------------------------------------------- C2
\* C2: a call of apply_action, with any action name (known or not) and any
\* target, that returns success = false leaves every field of the state
\* other than events equal to its value before the call.
C2_FailedActionNoEffect ==
    [][ (last_call' = "apply_action" /\ ncalls' = ncalls + 1 /\ ~success')
          => SansEvents(state') = SansEvents(state) ]_vars

\* an unrecognized action name has just failed on a state with a training
\* and a house in flight
C2_Witness ==
    /\ last_call = "apply_action"
    /\ ~success
    /\ gene_action = "gather_gold"
    /\ reason = "unknown action"
    /\ state.train_progress # None
    /\ state.house_progress # None

\* ---------------------------------------------------------------- C3
PrevFood ==
    IF trace = << >> THEN FromConstants(constants).food
    ELSE trace[Len(trace)].food

PrevFoodWorkers ==
    IF trace = << >> THEN FromConstants(constants).food_workers
    ELSE trace[Len(trace)].food_workers

FoodSpent ==
    IF gene_action = "train_villager" /\ success THEN food_cost ELSE 0

\* what the tick's trace record is built from, once the action is applied
C3_AtRecord ==
    pc = "record" =>
        /\ income.food = PrevFoodWorkers * Get(constants.gather_rates, "food", 0) * dt
        /\ state.food = PrevFood + income.food - FoodSpent
        /\ state.time = tick * dt
        /\ Len(trace) = tick

C3_Records ==
    \A i \in DOMAIN trace :
        "action" \in DOMAIN trace[i] =>
            /\ trace[i].tick = i - 1
            /\ trace[i].time = (i - 1) * dt

C3_Step ==
    /\ pc' = "gather" => pc = "loop"
    /\ pc = "gather" =>
          /\ pc' = "progress"
          /\ state'.food = state.food + income'.food
          /\ state'.wood = state.wood + income'.wood
          /\ state'.train_progress = state.train_progress
          /\ state'.house_progress = state.house_progress
    /\ pc = "progress" =>
          /\ pc' = "apply"
          /\ state'.food = state.food
          /\ state'.wood = state.wood
          /\ (state.train_progress # None /\ state.train_progress[1] <= dt)
                => state'.train_progress = None
          /\ (state.house_progress # None /\ state.house_progress[1] <= dt)
                => state'.house_progress = None
    /\ pc = "apply" =>
          /\ pc' = "record"
          /\ trace' = trace
          /\ state'.time = state.time
    /\ pc = "record" =>
          /\ pc' = "time"
          /\ state' = state
          /\ Len(trace') = Len(trace) + 1
          /\ trace'[Len(trace')].time = state.time
    /\ pc = "time" =>
          /\ pc' = "loop"
          /\ trace' = trace
          /\ state' = [state EXCEPT !.time = @ + dt]
    /\ C3_AtRecord'
    /\ C3_Records'

\* C3: in every tick the steps run in the order gather income, advance
\* progress timers, apply the decoded action, append the trace record, add
\* tick_seconds to state.time; so the action of tick i sees food that
\* includes tick i's income and slots freed by tick i's completions, and
\* trace record i carries time = i * tick_seconds.
C3_TickOrder == [][C3_Step]_vars

\* a later tick's train_villager succeeded although the food left by the
\* previous tick was below the cost: only this tick's income paid for it
C3_Witness ==
    /\ pc = "record"
    /\ Len(trace) >= 1
    /\ gene_action = "train_villager"
    /\ success
    /\ PrevFood < food_cost
    /\ income.food > 0

\* ---------------------------------------------------------------- C4
\* C4 as stated: when simulate has raised on an out-of-table gene, the
\* error names the offending gene value and the tick index.
C4_Original ==
    pc = "raised" =>
        /\ error # None
        /\ error[1].fields.gene = gene
        /\ "tick" \in DOMAIN error[1].fields

C4_Step ==
    /\ pc # "raised"
    /\ (pc # "raised" /\ pc' = "raised") =>
          /\ pc = "loop"
          /\ gene' \notin DOMAIN ACTION_LOOKUP
          /\ error' # None
          /\ error'[1].type = "ValueError"
          /\ DOMAIN error'[1].fields = {"gene"}
          /\ error'[1].fields.gene = gene'
          /\ result' = None
          /\ state' = state
          /\ trace' = trace
          /\ Len(trace') = tick'
    /\ (chromosome' # chromosome /\ gene' \notin DOMAIN ACTION_LOOKUP)
          => pc' = "raised"

\* C4 amended: a gene outside 0..6 at index k makes simulate return no
\* (fitness, trace) result; it ends in a ValueError that names the offending
\* gene value (and not the tick index), and neither gather, advance nor
\* apply is executed for tick k or any later tick.
C4_UnknownGeneAborts ==
    [][C4_Step]_vars

\* the run raised on a gene met after two completed ticks
C4_Witness ==
    /\ pc = "raised"
    /\ tick = 2
    /\ Len(trace) = 2
    /\ gene \notin DOMAIN ACTION_LOOKUP

\* ---------------------------------------------------------------- C6
\* successful train_villager orders recorded in the per-tick trace records
QueuedTrainings ==
    Cardinality({ i \in DOMAIN trace :
                    /\ "action" \in DOMAIN trace[i]
                    /\ trace[i].action = "train_villager"
                    /\ trace[i].success })

CompletedTrainings == state.villagers - FromConstants(constants).villagers

C6_OneInFlight ==
    pc \in {"loop", "score", "raised", "returned"} =>
        QueuedTrainings - CompletedTrainings
            = IF state.train_progress = None THEN 0 ELSE 1

C6_Step ==
    /\ (pc = "apply" /\ gene_action = "train_villager"
            /\ state.train_progress # None)
          => /\ ~success'
             /\ reason' = "town center busy"
             /\ state'.train_progress = state.train_progress
             /\ SansEvents(state') = SansEvents(state)
    /\ C6_OneInFlight'

\* C6: whenever train_progress is non-none, train_villager fails with
\* "town center busy" whatever the food and the population cap, the running
\* timer is left as it is, and at most one training order is in flight.
C6_SingleTrainingSlot == [][C6_Step]_vars

\* train_villager was refused as busy although food and room were there
C6_Witness ==
    /\ pc = "record"
    /\ gene_action = "train_villager"
    /\ ~success
    /\ reason = "town center busy"
    /\ state.train_progress # None
    /\ state.food >= food_cost
    /\ state.villagers < state.population_cap

\* ---------------------------------------------------------------- C7
TrainingCompletes(s) ==
    s.train_progress # None /\ s.train_progress[1] - dt <= 0

HouseCompletes(s) ==
    s.house_progress # None /\ s.house_progress[1] - dt <= 0

\* C7 as stated: progress_builds on a state whose train_progress equals
\* tick_seconds clears train_progress, increases villagers and
\* idle_villagers by exactly 1 each and does not increase tc_idle_time.
C7_Original ==
    [][ (pc = "progress" /\ state.train_progress = Some(dt)) =>
          /\ state'.train_progress = None
          /\ state'.villagers = state.villagers + 1
          /\ state'.idle_villagers = state.idle_villagers + 1
          /\ state'.tc_idle_time = state.tc_idle_time ]_vars

C7_Step ==
    pc = "progress" =>
      /\ state.train_progress = Some(dt) =>
            /\ state'.train_progress = None
            /\ state'.villagers = state.villagers + 1
            /\ state'.idle_villagers
                 = state.idle_villagers + 1
                     + (IF HouseCompletes(state) THEN 1 ELSE 0)
            /\ state'.tc_idle_time = state.tc_idle_time
      /\ state.train_progress # None =>
            IF TrainingCompletes(state)
            THEN /\ state'.train_progress = None
                 /\ state'.villagers = state.villagers + 1
            ELSE /\ state'.train_progress = Some(state.train_progress[1] - dt)
                 /\ state'.villagers = state.villagers
      /\ state.house_progress # None =>
            IF HouseCompletes(state)
            THEN state'.house_progress = None
            ELSE state'.house_progress = Some(state.house_progress[1] - dt)

\* C7 amended: progress_builds on a state whose train_progress equals
\* tick_seconds clears train_progress, increases villagers by exactly 1 and
\* idle_villagers by exactly 1 (by 2 when a house completes in the same
\* call) and does not increase tc_idle_time; a timer completes in the first
\* call in which its remaining time reaches zero or below.
C7_ExactBoundaryCompletes == [][C7_Step]_vars

\* a training queued with train_time = tick_seconds in the previous tick
\* has completed in this tick's progress_builds
C7_Witness ==
    /\ pc = "apply"
    /\ train_time = dt
    /\ Len(trace) >= 1
    /\ trace[Len(trace)].action = "train_villager"
    /\ trace[Len(trace)].success
    /\ VillagerTrained \in Range(state.events)
    /\ state.train_progress = None

\* ---------------------------------------------------------------- C8
C8_Queue ==
    (pc = "apply" /\ gene_action = "build_house"
        /\ state.house_progress = None
        /\ state.idle_villagers > 0
        /\ state.wood >= wood_cost)
      => /\ success'
         /\ reason' = "house queued"
         /\ state'.wood = state.wood - wood_cost
         /\ state'.idle_villagers = state.idle_villagers - 1
         /\ state'.house_progress = Some(build_time)

\* the advance of the tick after a successful build_house whose
\* build_time <= tick_seconds
C8_NextAdvance ==
    /\ pc = "progress"
    /\ Len(trace) >= 1
    /\ trace[Len(trace)].action = "build_house"
    /\ trace[Len(trace)].success
    /\ build_time <= dt

\* the spec's case, run from the initial state wood=30, idle=1, cap=4,
\* villagers=4 with wood_cost=30, build_time=10, pop_increase=4
C8_Case ==
    (constants.initial_state = InitHouse /\ build_time = 10
        /\ wood_cost = 30 /\ pop_increase = 4 /\ dt = 10)
      => /\ (tick = 0 /\ pc = "apply" /\ gene_action = "build_house")
               => /\ state.wood = 30
                  /\ state.idle_villagers = 1
                  /\ state.population_cap = 4
                  /\ state.villagers = 4
                  /\ success'
                  /\ state'.wood = 0
                  /\ state'.idle_villagers = 0
                  /\ state'.house_progress = Some(10)
         /\ (tick = 1 /\ pc = "progress" /\ chromosome[1] = 6)
               => /\ state'.population_cap = 8
                  /\ state'.idle_villagers = 1
                  /\ state'.house_progress = None
                  /\ HouseCompleted \in Range(state'.events)

\* C8 as stated: build_house on a state with no house in flight, an idle
\* villager and enough wood succeeds, pays wood_cost, takes one idle
\* villager and sets house_progress = build_time; if build_time <=
\* tick_seconds the next advance clears house_progress, adds pop_increase
\* to population_cap, increments idle_villagers by 1, leaves villagers
\* unchanged and leaves "house completed" in state.events.
C8_Original ==
    [][ /\ C8_Queue
        /\ C8_NextAdvance =>
              /\ state'.house_progress = None
              /\ state'.population_cap = state.population_cap + pop_increase
              /\ state'.idle_villagers = state.idle_villagers + 1
              /\ state'.villagers = state.villagers
              /\ HouseCompleted \in Range(state'.events)
        /\ C8_Case ]_vars

\* C8 amended: as stated, except that when a training completes in the
\* same advance, villagers rises by 1 and idle_villagers by 2 instead of
\* villagers staying unchanged and idle_villagers rising by 1.
C8_HouseLifeCycle ==
    [][ /\ C8_Queue
        /\ C8_NextAdvance =>
              /\ state'.house_progress = None
              /\ state'.population_cap = state.population_cap + pop_increase
              /\ state'.idle_villagers
                   = state.idle_villagers + 1
                       + (IF TrainingCompletes(state) THEN 1 ELSE 0)
              /\ state'.villagers
                   = state.villagers
                       + (IF TrainingCompletes(state) THEN 1 ELSE 0)
              /\ HouseCompleted \in Range(state'.events)
        /\ C8_Case ]_vars

\* the spec's case has run: the house queued at tick 0 has been completed
\* by tick 1's advance
C8_Witness ==
    /\ constants.initial_state = InitHouse
    /\ build_time = 10
    /\ tick = 1
    /\ chromosome[1] = 6
    /\ pc = "apply"
    /\ state.wood = 0
    /\ state.population_cap = 8
    /\ state.idle_villagers = 1
    /\ state.villagers = 4
    /\ state.house_progress = None
    /\ HouseCompleted \in Range(state.events)

\* ---------------------------------------------------------------- C9
C9_Chromosome == << 1, 2, 0, 0, 0 >>

C9_Scenario ==
    /\ dt = 10
    /\ constants.gather_rates = [food |-> 1, wood |-> 1]
    /\ constants.initial_state = InitTrain
    /\ food_cost = 50
    /\ train_time = 20
    /\ Len(chromosome) <= Len(C9_Chromosome)
    /\ chromosome = SubSeq(C9_Chromosome, 1, Len(chromosome))

C9_Tick0 ==
    (tick = 0 /\ pc = "record") =>
        /\ gene_action = "train_villager"
        /\ success
        /\ state.food = 0
        /\ state.train_progress = Some(20)

C9_Tick1Advance ==
    (tick = 1 /\ pc \in {"apply", "record"}) =>
        /\ state.train_progress = Some(10)
        /\ state.villagers = 1

\* C9 as stated: in the scenario, tick 0's train_villager succeeds leaving
\* food = 0 and train_progress = 20; at tick 1 train_progress goes to 10
\* without completing and assign_food fails with "no idle villager".
C9_Original ==
    C9_Scenario =>
        /\ C9_Tick0
        /\ C9_Tick1Advance
        /\ (tick = 1 /\ pc = "record") =>
              /\ gene_action = "assign_food"
              /\ ~success
              /\ reason = "no idle villager"

\* C9 amended: in the scenario, tick 0's train_villager succeeds leaving
\* food = 0 and train_progress = 20; at tick 1 train_progress goes to 10
\* without completing and assign_food succeeds with "assigned to food",
\* leaving idle_villagers = 0 and food_workers = 1.
C9_TrainingScenario ==
    C9_Scenario =>
        /\ C9_Tick0
        /\ C9_Tick1Advance
        /\ (tick = 1 /\ pc = "record") =>
              /\ gene_action = "assign_food"
              /\ success
              /\ reason = "assigned to food"
              /\ state.idle_villagers = 0
              /\ state.food_workers = 1

\* the scenario has run through tick 1's action
C9_Witness ==
    /\ C9_Scenario
    /\ chromosome = << 1, 2 >>
    /\ pc = "record"
    /\ state.train_progress = Some(10)

\* --------------------------------------------------------------- C10
C10_Step ==
    /\ (pc = "apply" /\ gene_action = "train_villager" /\ success') =>
          /\ state'.food = state.food - food_cost
          /\ state'.train_progress = Some(train_time)
          /\ state' = [state EXCEPT !.food = state'.food,
                                    !.train_progress = state'.train_progress,
                                    !.events = state'.events]
    /\ state'.idle_villagers < state.idle_villagers =>
          /\ pc = "apply"
          /\ gene_action \in {"assign_food", "assign_wood", "build_house"}
          /\ success'

\* C10: a successful train_villager changes only food (minus food_cost),
\* train_progress (set to train_time) and events; and only assign_food,
\* assign_wood and build_house ever decrease idle_villagers.
C10_TrainVillagerFrame == [][C10_Step]_vars

\* a training has just been queued on a state with idle villagers, workers
\* and a house in flight
C10_Witness ==
    /\ pc = "record"
    /\ gene_action = "train_villager"
    /\ success
    /\ state.idle_villagers > 0
    /\ state.food_workers + state.wood_workers > 0
    /\ state.house_progress # None

\* --------------------------------------------------------------- C11
Workers(s) == s.idle_villagers + s.food_workers + s.wood_workers

C11_Step ==
    (last_call' = "apply_action" /\ ncalls' = ncalls + 1
        /\ gene_action' = "idle_one")
      => /\ IF target' = Some("wood") /\ state.wood_workers > 0
            THEN /\ success'
                 /\ reason' = "wood worker idled"
                 /\ state'.wood_workers = state.wood_workers - 1
                 /\ state'.food_workers = state.food_workers
                 /\ state'.idle_villagers = state.idle_villagers + 1
            ELSE IF state.food_workers > 0
            THEN /\ success'
                 /\ reason' = "food worker idled"
                 /\ state'.food_workers = state.food_workers - 1
                 /\ state'.wood_workers = state.wood_workers
                 /\ state'.idle_villagers = state.idle_villagers + 1
            ELSE /\ ~success'
                 /\ reason' = "no worker on target resource"
                 /\ SansEvents(state') = SansEvents(state)
         /\ Workers(state') = Workers(state)
         /\ [state' EXCEPT !.idle_villagers = 0, !.food_workers = 0,
                           !.wood_workers = 0, !.events = << >>]
              = [state EXCEPT !.idle_villagers = 0, !.food_workers = 0,
                              !.wood_workers = 0, !.events = << >>]

\* C11: idle_one takes a worker from the wood pool only when the target is
\* "wood" and wood_workers > 0; in every other case it takes one from the
\* food pool if food_workers > 0 and otherwise fails with "no worker on
\* target resource", the state unchanged; a success moves exactly one
\* worker to idle and keeps idle + food_workers + wood_workers constant.
C11_IdleOnePool == [][C11_Step]_vars

\* idle_one aimed at the food pool has failed although wood workers exist
C11_Witness ==
    /\ last_call = "apply_action"
    /\ gene_action = "idle_one"
    /\ target = Some("food")
    /\ ~success
    /\ state.food_workers = 0
    /\ state.wood_workers > 0

\* --------------------------------------------------------------- C12
Weight(k) == Get(constants.fitness_weights, k, 0)
Penalty(k) == Get(constants.penalties, k, 0)

\* the spec's case: weights 1, 0.01, 0.01 and penalties 0.1, 0.5 (in
\* hundredths) on villagers=5, food=120, wood=40, tc_idle_time=30,
\* pop_block_time=0 give 3.6
C12_Case ==
    (constants = Config(10, 10, InitScore) /\ chromosome = << 0, 0, 0 >>)
      => /\ state.villagers = 5
         /\ state.food = 120
         /\ state.wood = 40
         /\ state.tc_idle_time = 30
         /\ state.pop_block_time = 0
         /\ result[1][1] = 360

\* the wood weight and the pop_block penalty are missing
C12_MissingKeys ==
    (DOMAIN constants.fitness_weights = {"villagers", "food"}
        /\ DOMAIN constants.penalties = {"tc_idle_per_sec"})
      => result[1][1] = constants.fitness_weights.villagers * state.villagers
                          + constants.fitness_weights.food * state.food
                          - constants.penalties.tc_idle_per_sec
                              * state.tc_idle_time

\* C12: the fitness simulate returns is
\* weights.villagers*villagers + weights.food*food + weights.wood*wood
\* - penalties.tc_idle_per_sec*tc_idle_time
\* - penalties.pop_block_per_sec*pop_block_time on the final state, a
\* missing weight or penalty counting as 0.
C12_FitnessFormula ==
    pc = "returned" =>
        /\ result # None
        /\ result[1][1]
             = Weight("villagers") * state.villagers
                 + Weight("food") * state.food
                 + Weight("wood") * state.wood
                 - (Penalty("tc_idle_per_sec") * state.tc_idle_time
                      + Penalty("pop_block_per_sec") * state.pop_block_time)
        /\ C12_Case
        /\ C12_MissingKeys

\* the spec's case has been scored
C12_Witness ==
    /\ pc = "returned"
    /\ constants = Config(10, 10, InitScore)
    /\ chromosome = << 0, 0, 0 >>
    /\ state.tc_idle_time = 30
    /\ result[1][1] = 360

\* --------------------------------------------------------------- C13
FailedRecords ==
    { i \in DOMAIN trace : "action" \in DOMAIN trace[i] /\ ~trace[i].success }

C13_AtLoop ==
    pc \in {"loop", "score"} =>
        /\ Len(trace) = Len(chromosome)
        /\ state.time = Len(chromosome) * dt

C13_AtReturn ==
    pc = "returned" =>
        LET N == Len(chromosome)
        IN  /\ Len(trace) = N + 1
            /\ result[1][2] = trace
            /\ \A i \in 1..N : /\ "action" \in DOMAIN trace[i]
                               /\ trace[i].tick = i - 1
            /\ DOMAIN trace[N + 1] = {"tick", "time", "summary"}
            /\ trace[N + 1].tick = N
            /\ trace[N + 1].time = N * dt
            /\ state.time = N * dt

C13_Step ==
    /\ pc # "returned"
    /\ state'.time >= state.time
    /\ IF pc = "time" THEN state'.time = state.time + dt
                      ELSE state'.time = state.time
    /\ (pc = "record") => (Len(trace') = Len(trace) + 1)
    /\ C13_AtLoop'
    /\ C13_AtReturn'

\* C13: a chromosome of length N over genes 0..6 is run for exactly N
\* ticks however many actions fail; the trace has N+1 records, record i
\* has tick = i, the last is the summary with tick = N and
\* time = N * tick_seconds, and state.time grows by exactly tick_seconds
\* per tick.
C13_FullLengthRun == [][C13_Step]_vars

\* a run of three ticks has returned with at least two failed actions
C13_Witness ==
    /\ pc = "returned"
    /\ Len(chromosome) = 3
    /\ Cardinality(FailedRecords) >= 2
    /\ state.time = 3 * dt

\* --------------------------------------------------------------- C14
\* the State has just been built by GameState.from_constants
JustBuilt == pc = "loop" /\ chromosome = << >>

\* C14 as stated: for every initial_state mapping the population_cap of the
\* State built by from_constants is never below 4 and never below the
\* starting villager count.
C14_Original ==
    JustBuilt =>
        /\ state.population_cap >= 4
        /\ state.population_cap >= state.villagers

\* C14 amended: for every initial_state mapping without a population_cap
\* entry the population_cap built is max(villagers, 4), so never below 4
\* and never below the starting villager count; a population_cap entry is
\* taken as given, whatever its value.
C14_InitialPopulationCap ==
    JustBuilt =>
        IF "population_cap" \in DOMAIN constants.initial_state
        THEN state.population_cap = constants.initial_state.population_cap
        ELSE /\ state.population_cap >= 4
             /\ state.population_cap >= state.villagers
             /\ state.population_cap \in {4, state.villagers}

\* a State built from a mapping with five villagers and no population_cap
C14_Witness ==
    /\ JustBuilt
    /\ "population_cap" \notin DOMAIN constants.initial_state
    /\ state.villagers > 4
    /\ state.population_cap = state.villagers

\* --------------------------------------------------------------- C15
Rate(k) == IF k \in DOMAIN constants.gather_rates
           THEN constants.gather_rates[k] ELSE 0

C15_Step ==
    (last_call' = "gather_resources" /\ ncalls' = ncalls + 1) =>
        /\ income'.food = state.food_workers * Rate("food") * dt
        /\ income'.wood = state.wood_workers * Rate("wood") * dt
        /\ state' = [state EXCEPT !.food = state.food + income'.food,
                                  !.wood = state.wood + income'.wood]
        /\ "wood" \notin DOMAIN constants.gather_rates
              => state'.wood = state.wood
        /\ (state.food_workers = 0 /\ state.wood_workers = 0)
              => /\ state' = state
                 /\ income' = [food |-> 0, wood |-> 0]

\* C15: gather_resources changes only food (by food_workers * food_rate *
\* tick_seconds) and wood (by wood_workers * wood_rate * tick_seconds), a
\* missing rate counting as 0; with no worker on either pool every gather
\* call leaves food and wood unchanged and returns zero income.
C15_GatherAccrual == [][C15_Step]_vars

\* a second gather call in a row has paid food income and, the wood rate
\* missing, no wood income to the wood workers
C15_Witness ==
    /\ last_call = "gather_resources"
    /\ ncalls >= 2
    /\ "wood" \notin DOMAIN constants.gather_rates
    /\ state.wood_workers > 0
    /\ income.wood = 0
    /\ income.food > 0
    /\ state.food = FromConstants(constants).food + ncalls * income.food

\* --------------------------------------------------------------- C16
C16_Step ==
    IF pc = "progress"
    THEN /\ state'.villagers
              = state.villagers + (IF TrainingCompletes(state) THEN 1 ELSE 0)
         /\ state'.population_cap
              = state.population_cap
                  + (IF HouseCompletes(state) THEN pop_increase ELSE 0)
         /\ state'.pop_block_time
              = state.pop_block_time
                  + (IF state'.villagers >= state'.population_cap
                     THEN dt ELSE 0)
    ELSE state'.pop_block_time = state.pop_block_time

\* C16: in each tick pop_block_time grows by exactly tick_seconds if
\* villagers >= population_cap holds once that tick's training and house
\* completions are applied, and is unchanged otherwise; no action changes
\* pop_block_time.
C16_PopBlockAccrual == [][C16_Step]_vars

\* every earlier tick was blocked; in this tick a house has completed,
\* lifted the cap above villagers, and no blocked time was accrued
C16_Witness ==
    /\ pc = "apply"
    /\ tick >= 1
    /\ HouseCompleted \in Range(state.events)
    /\ pop_increase > 0
    /\ state.villagers < state.population_cap
    /\ state.villagers >= state.population_cap - pop_increase
    /\ state.pop_block_time = tick * dt

\* --------------------------------------------------------------- C17
\* ticks a training order keeps the slot busy at the advance step
BusyTicksPerOrder ==
    IF train_time <= dt THEN 1 ELSE (train_time + dt - 1) \div dt

Min(a, b) == IF a <= b THEN a ELSE b

RECURSIVE BusyTicksUpTo(_)
\* advance steps, among those of the ticks recorded, that found an order
\* queued by one of the first j records in flight
BusyTicksUpTo(j) ==
    IF j = 0 THEN 0
    ELSE BusyTicksUpTo(j - 1)
           + (IF trace[j].action = "train_villager" /\ trace[j].success
              THEN Min(BusyTicksPerOrder, Len(trace) - j) ELSE 0)

C17_Count ==
    pc \in {"loop", "score"} =>
        state.tc_idle_time = dt * (Len(trace) - BusyTicksUpTo(Len(trace)))

C17_Step ==
    /\ IF pc = "progress"
       THEN state'.tc_idle_time
              = state.tc_idle_time
                  + (IF state.train_progress = None THEN dt ELSE 0)
       ELSE state'.tc_idle_time = state.tc_idle_time
    /\ (pc = "progress" /\ tick = 0) => state'.tc_idle_time = dt
    /\ (pc = "progress" /\ TrainingCompletes(state))
          => state'.tc_idle_time = state.tc_idle_time
    /\ (pc = "progress" /\ tick >= 1
            /\ trace[Len(trace)].action = "train_villager"
            /\ trace[Len(trace)].success)
          => state'.tc_idle_time = state.tc_idle_time
    /\ C17_Count'

\* C17: tc_idle_time is tick_seconds times the number of ticks whose
\* advance step found train_progress none: tick 0 of a run always accrues,
\* a tick in which a training completes accrues nothing, and neither does
\* the tick after a train_villager queued in the tick the previous
\* training completed.
C17_TcIdleAccrual == [][C17_Step]_vars

\* trainings were queued at tick 0 and again at tick 1, the tick the first
\* one completed; after tick 2's advance only tick 0 has counted as idle
C17_Witness ==
    /\ pc = "apply"
    /\ tick = 2
    /\ trace[1].action = "train_villager" /\ trace[1].success
    /\ trace[2].action = "train_villager" /\ trace[2].success
    /\ state.tc_idle_time = dt

\* --------------------------------------------------------------- C18
NonNegativeInputs ==
    LET s0 == FromConstants(constants)
    IN  /\ s0.food >= 0 /\ s0.wood >= 0
        /\ s0.idle_villagers >= 0
        /\ s0.food_workers >= 0 /\ s0.wood_workers >= 0
        /\ Rate("food") >= 0 /\ Rate("wood") >= 0
        /\ food_cost >= 0 /\ wood_cost >= 0
        /\ dt >= 0

\* C18: from non-negative initial stocks and head counts, with
\* non-negative rates, costs and tick_seconds, food, wood, idle_villagers,
\* food_workers and wood_workers are non-negative in every reachable state.
C18_NoNegativeStock ==
    NonNegativeInputs =>
        /\ state.food >= 0
        /\ state.wood >= 0
        /\ state.idle_villagers >= 0
        /\ state.food_workers >= 0
        /\ state.wood_workers >= 0

\* build_house has just spent the last wood and the last idle villager
C18_Witness ==
    /\ NonNegativeInputs
    /\ pc = "record"
    /\ gene_action = "build_house"
    /\ success
    /\ wood_cost > 0
    /\ state.wood = 0
    /\ state.idle_villagers = 0

\* --------------------------------------------------------------- C19
CapRespectedAtStart ==
    LET s0 == FromConstants(constants)
    IN  /\ s0.villagers <= s0.population_cap
        /\ s0.train_progress = None
        /\ pop_increase >= 0

\* C19: from an initial state with villagers <= population_cap and no
\* training in flight, with pop_increase >= 0, villagers <= population_cap
\* holds in every reachable state (and villagers < population_cap while a
\* training is in flight), and population_cap never falls below its
\* initial value.
C19_CapNeverExceeded ==
    CapRespectedAtStart =>
        /\ state.villagers <= state.population_cap
        /\ state.train_progress # None
              => state.villagers < state.population_cap
        /\ state.population_cap >= FromConstants(constants).population_cap

\* a training has just completed and brought villagers up to the cap
C19_Witness ==
    /\ CapRespectedAtStart
    /\ pc = "apply"
    /\ VillagerTrained \in Range(state.events)
    /\ state.villagers = state.population_cap

\* --------------------------------------------------------------- C20
Builders(s) == IF s.house_progress # None THEN 1 ELSE 0

\* C20: from a conserving initial state with no house in flight, every
\* reachable state has villagers == idle_villagers + food_workers +
\* wood_workers + b, b being 1 while a house is in flight and 0 otherwise.
C20_BuilderAwareConservation ==
    (InitConserves /\ FromConstants(constants).house_progress = None)
      => state.villagers = Workers(state) + Builders(state)

\* a house is in flight between two ticks, its builder in no pool
C20_Witness ==
    /\ InitConserves
    /\ pc = "loop"
    /\ state.house_progress # None
    /\ state.food_workers > 0
    /\ state.villagers = Workers(state) + 1

\* --------------------------------------------------------------- C21
TickRecords == { i \in DOMAIN trace : "action" \in DOMAIN trace[i] }

\* C21: the events of every per-tick trace record are empty unless the
\* tick's action was a successful build_house, and then they are exactly
\* the one "house(+N) queued" notice; "villager trained" and "house
\* completed" never appear in a trace record.
C21_ProgressEventsNotTraced ==
    \A i \in TickRecords :
        /\ trace[i].events
             = IF trace[i].action = "build_house" /\ trace[i].success
               THEN << HouseQueued(pop_increase) >>
               ELSE << >>
        /\ VillagerTrained \notin Range(trace[i].events)
        /\ HouseCompleted \notin Range(trace[i].events)

\* the trace holds the record of a queued house with its notice, the
\* record of the tick in which the house completed and the record of a tick
\* in which a training completed, the last two with no events
C21_Witness ==
    /\ \E i \in TickRecords :
          /\ trace[i].action = "build_house"
          /\ trace[i].success
          /\ Len(trace[i].events) = 1
    /\ \E i \in TickRecords :
          /\ i >= 2
          /\ trace[i].population_cap > trace[i - 1].population_cap
          /\ trace[i].events = << >>
    /\ \E i \in TickRecords :
          /\ i >= 2
          /\ trace[i].villagers > trace[i - 1].villagers
          /\ trace[i].events = << >>

====
